---- MODULE Spec2Model ----
(***************************************************************************)
(* twitch-chat-tui: the event channel, its two producer tasks, the render  *)
(* loop of main() with its message buffer, and what terminal.draw makes of *)
(* the buffer: the layout of one message (prefix width, name style, first  *)
(* line) and the list of lines of a frame.                                 *)
(*                                                                         *)
(* Time is kept as elapsed durations in milliseconds: `elapsed` is the     *)
(* render loop's last_tick.elapsed(), `p_elapsed` the input/tick           *)
(* producer's.  Durations saturate at MaxElapsed, which is not below       *)
(* tick_rate, so every comparison the code makes is decided as in the code.*)
(* disable_raw_mode and show_cursor on the quit path are taken to succeed. *)
(***************************************************************************)
EXTENDS Integers, Sequences, FiniteSets, TLC

VARIABLES
    queue,          \* the unbounded channel (tx, rx): events sent, not yet received
    tx_alive,       \* the input/tick task still runs and holds tx
    tx2_alive,      \* the network task still runs and holds tx2
    p_elapsed,      \* the input/tick task's last_tick.elapsed()
    messages,       \* VecDeque<PrivmsgMessage> of the render loop, front first
    elapsed,        \* the render loop's last_tick.elapsed()
    state,          \* "Running" | "Terminated"
    exit_code,      \* -1 while running, 0 after process::exit(0), 101 after a panic
    exit_cause,     \* "none" | "quit" | "draw" | "recv"
    raw_mode,       \* terminal raw mode is enabled
    cursor_shown,   \* show_cursor has been called
    next_id,        \* serial number the next Privmsg from the network gets
    inserted,       \* number of Privmsg payloads the render loop has pushed
    since_draw,     \* time since the last completed redraw, -1 before the first
    last,           \* what the last dispatch of the render loop did
    p_last,         \* what the last iteration of the input/tick task did
    lay_in,         \* layout input: a message and the frame width
    lay_out,        \* layout output for lay_in, or NoLayout
    send_failed,    \* the kind of event whose send last failed, "none" before
    fr_in,          \* frame input: the buffer as wrapped lines, and the height
    fr_out          \* the list built for fr_in and the rows shown, or NoFrame

loop_vars == <<queue, tx_alive, tx2_alive, p_elapsed, messages, elapsed, state,
               exit_code, exit_cause, raw_mode, cursor_shown, next_id, inserted,
               since_draw, last, p_last>>
layout_vars == <<lay_in, lay_out>>
vars == <<queue, tx_alive, tx2_alive, p_elapsed, messages, elapsed, state,
          exit_code, exit_cause, raw_mode, cursor_shown, next_id, inserted,
          since_draw, last, p_last, lay_in, lay_out, send_failed,
                   fr_in, fr_out>>

----------------------------------------------------------------------------
(* Bounds of the model *)

MaxQueue == 2        \* events held in the channel at once, full loop
MaxMsgs == 2         \* Privmsg payloads the network sends, full loop
MaxBurstQueue == 1   \* events held in the channel at once, buffer runs
MaxBurst == 52       \* Privmsg payloads the network sends, buffer runs
TimeStep == 100      \* granularity of the clock, ms
MaxElapsed == 200    \* durations saturate here, ms
MaxBadges == 2       \* badges attached to one message
MaxLiveQueue == 2    \* events held in the channel at once, fair runs
MaxLiveMsgs == 1     \* Privmsg payloads the network sends, fair runs

(* Program constants *)

tick_rate == 200             \* Duration::from_millis(200)
messages_buffer_size == 50   \* messages.len() > 50
PANIC_EXIT == 101            \* exit status of a Rust process whose main panics

Min(a, b) == IF a < b THEN a ELSE b
Sat(t) == Min(t, MaxElapsed)

----------------------------------------------------------------------------
(* enum Event { ChatMessage(ServerMessage), Input(CEvent), Render } *)

ChatMessage(privmsg, id) ==
    [type |-> "ChatMessage", privmsg |-> privmsg, id |-> id, code |-> "", mods |-> {}]
Input(code, mods) ==
    [type |-> "Input", privmsg |-> FALSE, id |-> 0, code |-> code, mods |-> mods]
Render == [type |-> "Render", privmsg |-> FALSE, id |-> 0, code |-> "", mods |-> {}]
NoEvent == [type |-> "none", privmsg |-> FALSE, id |-> 0, code |-> "", mods |-> {}]
(* A terminal event that is no key press (CEvent::Mouse, CEvent::Resize). *)
OtherEvent == [type |-> "other", privmsg |-> FALSE, id |-> 0, code |-> "", mods |-> {}]

(* Key presses the terminal can deliver (code, modifiers). *)
Keys == { Input("c", {"CONTROL"}), Input("c", {}), Input("c", {"CONTROL", "SHIFT"}),
          Input("C", {"CONTROL"}), Input("q", {"CONTROL"}) }

NoDispatch == [ev |-> NoEvent, elapsed |-> 0, draw |-> "none", frame |-> <<>>, gap |-> -1]

(* What the input/tick task's last loop iteration did: the terminal event it
   read (NoEvent when poll timed out), the events it sent, and whether it
   reset its last_tick. *)
NoIteration == [read |-> NoEvent, sent |-> <<>>, elapsed |-> 0, reset |-> FALSE]

----------------------------------------------------------------------------
(* The network task, main.rs 36-41 *)

(* incoming_messages.recv() yields a message; it is sent as ChatMessage.
   A Privmsg gets the next serial number, which stands for its content. *)
NetRecv(maxq, maxmsgs) ==
    /\ state = "Running" /\ tx2_alive
    /\ Len(queue) < maxq
    /\ \E privmsg \in BOOLEAN :
          IF privmsg
          THEN /\ next_id <= maxmsgs
               /\ queue' = Append(queue, ChatMessage(TRUE, next_id))
               /\ next_id' = next_id + 1
          ELSE /\ queue' = Append(queue, ChatMessage(FALSE, 0))
               /\ next_id' = next_id
    /\ UNCHANGED <<tx_alive, tx2_alive, p_elapsed, messages, elapsed, state,
                   exit_code, exit_cause, raw_mode, cursor_shown, inserted,
                   since_draw, last, p_last, lay_in, lay_out, send_failed,
                   fr_in, fr_out>>

(* incoming_messages.recv() yields None: the while-let loop ends, the task
   finishes and tx2 is dropped. *)
NetEnd ==
    /\ state = "Running" /\ tx2_alive
    /\ tx2_alive' = FALSE
    /\ UNCHANGED <<queue, tx_alive, p_elapsed, messages, elapsed, state,
                   exit_code, exit_cause, raw_mode, cursor_shown, next_id,
                   inserted, since_draw, last, p_last, lay_in, lay_out, send_failed,
                   fr_in, fr_out>>

----------------------------------------------------------------------------
(* The input/tick task, main.rs 43-63.  One action is one loop iteration.
   These actions leave p_last to the specification: one that observes the
   task records the iteration in it (Iteration), the others keep it. *)

(* if last_tick.elapsed() >= tick_rate *)
TickDue(e) == e >= tick_rate

(* As EmitTick, with the tick check skipped after a key press was sent. *)
EmitTick_skips_after_key(sent) ==
    IF TickDue(p_elapsed) /\ sent = <<>>
    THEN /\ queue' = queue \o <<Render>>
         /\ p_elapsed' = 0
    ELSE /\ queue' = queue \o sent
         /\ p_elapsed' = p_elapsed

(* As EmitTick, with last_tick also reset whenever something was sent. *)
EmitTick_resets_on_send(sent) ==
    IF TickDue(p_elapsed)
    THEN /\ queue' = queue \o sent \o <<Render>>
         /\ p_elapsed' = 0
    ELSE /\ queue' = queue \o sent
         /\ p_elapsed' = IF sent # <<>> THEN 0 ELSE p_elapsed

(* Lines 57-61, run at the end of an iteration that has already sent
   `sent`: a due tick is sent as Render, and only then is last_tick reset. *)
EmitTick(sent) ==
    IF TickDue(p_elapsed)
    THEN /\ queue' = queue \o sent \o <<Render>>
         /\ p_elapsed' = 0
    ELSE /\ queue' = queue \o sent
         /\ p_elapsed' = p_elapsed

(* poll returns true and read returns the key event `key`: it is forwarded. *)
ForwardKey(maxq, key) ==
    /\ state = "Running" /\ tx_alive
    /\ EmitTick(<<key>>)
    /\ Len(queue') <= maxq
    /\ UNCHANGED <<tx_alive, tx2_alive, messages, elapsed, state, exit_code,
                   exit_cause, raw_mode, cursor_shown, next_id, inserted,
                   since_draw, last, lay_in, lay_out, send_failed,
                   fr_in, fr_out>>

(* poll returns true and read returns an event that is no key (resize,
   mouse): nothing is forwarded. *)
SkipEvent(maxq) ==
    /\ state = "Running" /\ tx_alive
    /\ EmitTick(<<>>)
    /\ Len(queue') <= maxq
    /\ UNCHANGED <<tx_alive, tx2_alive, messages, elapsed, state, exit_code,
                   exit_cause, raw_mode, cursor_shown, next_id, inserted,
                   since_draw, last, lay_in, lay_out, send_failed,
                   fr_in, fr_out>>

(* poll returns false: the timeout tick_rate - last_tick.elapsed() has run
   out without a terminal event. *)
PollTimeout(maxq) ==
    /\ state = "Running" /\ tx_alive
    /\ p_elapsed >= tick_rate
    /\ EmitTick(<<>>)
    /\ Len(queue') <= maxq
    /\ UNCHANGED <<tx_alive, tx2_alive, messages, elapsed, state, exit_code,
                   exit_cause, raw_mode, cursor_shown, next_id, inserted,
                   since_draw, last, lay_in, lay_out, send_failed,
                   fr_in, fr_out>>

(* poll or read returns Err: expect panics, the task ends and tx is dropped. *)
PollFails ==
    /\ state = "Running" /\ tx_alive
    /\ tx_alive' = FALSE
    /\ UNCHANGED <<queue, tx2_alive, p_elapsed, messages, elapsed, state,
                   exit_code, exit_cause, raw_mode, cursor_shown, next_id,
                   inserted, since_draw, last, p_last, lay_in, lay_out, send_failed,
                   fr_in, fr_out>>

(* Time passes for every task. *)
Advance ==
    /\ state = "Running"
    /\ elapsed' = Sat(elapsed + TimeStep)
    /\ p_elapsed' = Sat(p_elapsed + TimeStep)
    /\ since_draw' = IF since_draw < 0 THEN since_draw ELSE Sat(since_draw + TimeStep)
    /\ UNCHANGED <<queue, tx_alive, tx2_alive, messages, state, exit_code,
                   exit_cause, raw_mode, cursor_shown, next_id, inserted, last,
                   p_last, lay_in, lay_out, send_failed,
                   fr_in, fr_out>>

----------------------------------------------------------------------------
(* The render loop, main.rs 76-209.  One action is one loop iteration: one
   rx.recv() and the whole dispatch of what it returned. *)

(* As IsQuit, matching the upper-case letter. *)
IsQuit_uppercase(key) == key.code = "C" /\ key.mods = {"CONTROL"}

(* As IsQuit, without the test of the modifiers. *)
IsQuit_any_modifiers(key) == key.code = "c"

(* KeyCode::Char('c') with key.modifiers == KeyModifiers::CONTROL, 81-83 *)
IsQuit(key) == key.code = "c" /\ key.mods = {"CONTROL"}

(* As Insert, evicting at the front. *)
Insert_pop_front(buf, m) ==
    LET pushed == <<m>> \o buf
    IN  IF Len(pushed) > messages_buffer_size
        THEN SubSeq(pushed, 2, Len(pushed))
        ELSE pushed

(* messages.push_front(privmsg); if messages.len() > 50 { messages.pop_back(); } *)
Insert(buf, m) ==
    LET pushed == <<m>> \o buf
    IN  IF Len(pushed) > messages_buffer_size
        THEN SubSeq(pushed, 1, Len(pushed) - 1)
        ELSE pushed

(* As DrawnOrder, iterating from the back. *)
DrawnOrder_reversed(buf) == [i \in 1..Len(buf) |-> buf[Len(buf) - i + 1]]

(* `for m in &messages`: the messages laid out by one draw, in the order
   they are laid out. *)
DrawnOrder(buf) == [i \in 1..Len(buf) |-> buf[i]]

(* As RedrawDue, without the comparison. *)
RedrawDue_always(e) == TRUE

(* As RedrawDue, due as soon as any time has passed. *)
RedrawDue_any_elapsed(e) == e > 0

(* if last_tick.elapsed() >= tick_rate, line 104 *)
RedrawDue(e) == e >= tick_rate

(* The iteration ends by `continue`: nothing after the match runs. *)
Continue(ev) ==
    /\ last' = [ev |-> ev, elapsed |-> elapsed, draw |-> "none", frame |-> <<>>,
                gap |-> since_draw]
    /\ UNCHANGED <<elapsed, p_elapsed, since_draw, state, exit_code, exit_cause>>

(* Lines 104-208, reached when the match arm falls through: a redraw when a
   tick period has passed since last_tick, and last_tick is reset after it.
   The draw takes no time or one TimeStep; a failed draw panics. *)
Redraw(ev) ==
    IF RedrawDue(elapsed)
    THEN \E ok \in BOOLEAN, d \in {0, TimeStep} :
            IF ok
            THEN /\ last' = [ev |-> ev, elapsed |-> elapsed, draw |-> "done",
                             frame |-> DrawnOrder(messages), gap |-> since_draw]
                 /\ elapsed' = 0
                 /\ since_draw' = 0
                 /\ p_elapsed' = Sat(p_elapsed + d)
                 /\ UNCHANGED <<state, exit_code, exit_cause>>
            ELSE /\ last' = [ev |-> ev, elapsed |-> elapsed, draw |-> "failed",
                             frame |-> <<>>, gap |-> since_draw]
                 /\ state' = "Terminated"
                 /\ exit_code' = PANIC_EXIT
                 /\ exit_cause' = "draw"
                 /\ UNCHANGED <<elapsed, p_elapsed, since_draw>>
    ELSE Continue(ev)

(* As AfterChatMessage, falling through to the redraw guard. *)
AfterChatMessage_falls_through(ev) == Redraw(ev)

(* The `continue` that ends the ChatMessage arm, line 100. *)
AfterChatMessage(ev) == Continue(ev)

(* Event::Input(event), 78-92 *)
ConsumeInput ==
    /\ state = "Running"
    /\ queue # <<>> /\ Head(queue).type = "Input"
    /\ queue' = Tail(queue)
    /\ LET key == Head(queue) IN
         IF key.code = "c"
         THEN IF IsQuit(key)
              THEN /\ raw_mode' = FALSE
                   /\ cursor_shown' = TRUE
                   /\ state' = "Terminated"
                   /\ exit_code' = 0
                   /\ exit_cause' = "quit"
                   /\ last' = [ev |-> key, elapsed |-> elapsed, draw |-> "none",
                               frame |-> <<>>, gap |-> since_draw]
                   /\ UNCHANGED <<elapsed, p_elapsed, since_draw>>
              ELSE /\ Redraw(key)
                   /\ UNCHANGED <<raw_mode, cursor_shown>>
         ELSE /\ Continue(key)
              /\ UNCHANGED <<raw_mode, cursor_shown>>
    /\ UNCHANGED <<tx_alive, tx2_alive, messages, next_id, inserted, p_last,
                   lay_in, lay_out, send_failed,
                   fr_in, fr_out>>

(* As IsPrivmsg, taking every protocol message for a chat message. *)
IsPrivmsg_any(message) == TRUE

(* if let ServerMessage::Privmsg(privmsg) = message, line 94 *)
IsPrivmsg(message) == message.privmsg

(* Event::ChatMessage(message), 93-101 *)
ConsumeChatMessage ==
    /\ state = "Running"
    /\ queue # <<>> /\ Head(queue).type = "ChatMessage"
    /\ queue' = Tail(queue)
    /\ LET message == Head(queue) IN
         IF IsPrivmsg(message)
         THEN /\ messages' = Insert(messages, message.id)
              /\ inserted' = inserted + 1
         ELSE UNCHANGED <<messages, inserted>>
    /\ AfterChatMessage(Head(queue))
    /\ UNCHANGED <<tx_alive, tx2_alive, raw_mode, cursor_shown, next_id, p_last,
                   lay_in, lay_out, send_failed,
                   fr_in, fr_out>>

(* As AfterRender, ending the iteration without reaching the redraw guard. *)
AfterRender_continues(ev) == Continue(ev)

(* The `_ => {}` arm at 102 does nothing and control falls through to the
   redraw guard at 104. *)
AfterRender(ev) == Redraw(ev)

(* Event::Render, the `_ => {}` arm at 102 *)
ConsumeRender ==
    /\ state = "Running"
    /\ queue # <<>> /\ Head(queue).type = "Render"
    /\ queue' = Tail(queue)
    /\ AfterRender(Head(queue))
    /\ UNCHANGED <<tx_alive, tx2_alive, messages, raw_mode, cursor_shown,
                   next_id, inserted, p_last, lay_in, lay_out, send_failed,
                   fr_in, fr_out>>

(* rx.recv() returns None, which is when the channel is empty and every
   sender has been dropped: expect("receiving event") panics. *)
RecvClosed ==
    /\ state = "Running"
    /\ queue = <<>> /\ ~tx_alive /\ ~tx2_alive
    /\ state' = "Terminated"
    /\ exit_code' = PANIC_EXIT
    /\ exit_cause' = "recv"
    /\ UNCHANGED <<queue, tx_alive, tx2_alive, p_elapsed, messages, elapsed,
                   raw_mode, cursor_shown, next_id, inserted, since_draw, last,
                   p_last, lay_in, lay_out, send_failed,
                   fr_in, fr_out>>

----------------------------------------------------------------------------
(* The layout of one message inside terminal.draw, main.rs 107-189: the part
   that decides the column widths. *)

(* Badge names a message can carry; "broadcaster" stands for every badge the
   layout does not look for. *)
BadgeNames == {"subscriber", "founder", "moderator", "vip", "broadcaster"}

(* As HasBadge, looking at the first badge only. *)
HasBadge_first(badges, name) == badges # <<>> /\ badges[1] = name

(* m.badges.iter().any(|b| b.name == name), 128-131 *)
HasBadge(badges, name) == \E i \in 1..Len(badges) : badges[i] = name

(* impl Default for Config: the configured column width of each badge symbol. *)
ConfigDefault ==
    [subscriber_symbol_width |-> 2, founder_symbol_width |-> 2,
     mod_symbol_width |-> 2, vip_symbol_width |-> 2,
     invert_below_brightness |-> 30, messages_buffer_size |-> 50]

(* Columns added to width_for_name for each badge, 134-145 *)
SubscriberColumns == 2
FounderColumns == 2
ModColumns == 2
VipColumns == 3

(* let mut width_for_name = m.sender.name.len() + 2, then one addition per
   badge found, 133-146 *)
width_for_name(m) ==
    Len(m.name) + 2
    + (IF HasBadge(m.badges, "subscriber") THEN SubscriberColumns ELSE 0)
    + (IF HasBadge(m.badges, "founder") THEN FounderColumns ELSE 0)
    + (IF HasBadge(m.badges, "moderator") THEN ModColumns ELSE 0)
    + (IF HasBadge(m.badges, "vip") THEN VipColumns ELSE 0)

(* size.width as usize - width_for_name, line 147.  The subtraction is on
   usize: when it would go below zero a build with overflow checks panics
   and a build without them wraps to 2^64 - below. *)
width_for_text(width, name_width, overflow_checks) ==
    IF width >= name_width
    THEN [status |-> "ok", value |-> width - name_width, below |-> 0]
    ELSE IF overflow_checks
         THEN [status |-> "panic", value |-> 0, below |-> name_width - width]
         ELSE [status |-> "wrapped", value |-> 0, below |-> name_width - width]

(* m.name_color: None, or Some(RGBColor { r, g, b }) with u8 components. *)
NoColor == [some |-> FALSE, r |-> 0, g |-> 0, b |-> 0]
Rgb(r, g, b) == [some |-> TRUE, r |-> r, g |-> g, b |-> b]

(* The weights and the limit of the test at 115-118, in units of 1/100000:
   0.2126, 0.7152, 0.00722 and 30.0. *)
RedWeight == 21260
GreenWeight == 71520
BlueWeight == 722
BrightnessLimit == 3000000

(* 0.2126 * r + 0.7152 * g + 0.00722 * b < 30.0.  The f32 sum is taken
   exactly; no colour of NameColors is within rounding of the limit. *)
IsDark(color) ==
    RedWeight * color.r + GreenWeight * color.g + BlueWeight * color.b < BrightnessLimit

(* The style of the sender name, 111-126: the colour as foreground, and a
   gray background under a dark one; Style::default() without a colour. *)
name_style(color) ==
    IF color.some
    THEN [fg |-> <<color.r, color.g, color.b>>,
          bg |-> IF IsDark(color) THEN "Gray" ELSE "unset"]
    ELSE [fg |-> "unset", bg |-> "unset"]

(* The spans of a message's first line ahead of its text, 155-176: one span
   per badge looked for, empty when the badge is absent, in the order
   moderator, vip, subscriber, founder; then the styled sender name and the
   separator.  The symbols are named by what they show. *)
first_line_spans(m) ==
    << IF HasBadge(m.badges, "moderator") THEN "finger" ELSE "",
       IF HasBadge(m.badges, "vip") THEN "ticket crab" ELSE "",
       IF HasBadge(m.badges, "subscriber") THEN "crab" ELSE "",
       IF HasBadge(m.badges, "founder") THEN "unicorn" ELSE "",
       [text |-> m.name, style |-> name_style(m.name_color)],
       ": " >>

NoLayout == [done |-> FALSE]

(* Sender names, by their text. *)
SenderNames == {"bob", "al", "stuck_overflow"}
(* Frame widths f.size().width *)
FrameWidths == {4, 8, 20, 80}

RECURSIVE SeqsUpTo(_, _)
SeqsUpTo(S, n) ==
    IF n = 0 THEN {<<>>}
    ELSE LET shorter == SeqsUpTo(S, n - 1)
         IN  shorter \cup {Append(q, x) : q \in shorter, x \in S}

(* Sender colours: none, black, white, and colours around the limit. *)
NameColors ==
    { NoColor, Rgb(0, 0, 0), Rgb(255, 255, 255), Rgb(30, 30, 30),
      Rgb(0, 38, 255), Rgb(0, 41, 0), Rgb(0, 42, 0) }

LayoutInputs ==
    [done : {TRUE}, name : SenderNames, badges : SeqsUpTo(BadgeNames, MaxBadges),
     width : FrameWidths, name_color : NameColors]

(* One pass of the loop body at 110-189 over the message lay_in. *)
Layout ==
    /\ lay_in.done /\ ~lay_out.done
    /\ \E overflow_checks \in BOOLEAN :
          lay_out' = [done |-> TRUE,
                      style |-> name_style(lay_in.name_color),
                      first_line |-> first_line_spans(lay_in),
                      width_for_name |-> width_for_name(lay_in),
                      width_for_text |-> width_for_text(lay_in.width,
                                                        width_for_name(lay_in),
                                                        overflow_checks)]
    /\ UNCHANGED <<queue, tx_alive, tx2_alive, p_elapsed, messages, elapsed,
                   state, exit_code, exit_cause, raw_mode, cursor_shown, next_id,
                   inserted, since_draw, last, p_last, lay_in, send_failed,
                   fr_in, fr_out>>


----------------------------------------------------------------------------
(* The list of one frame, main.rs 108-204: the items built from the buffer
   and the rows on which the List widget shows them.  A message is its
   serial number and the number of lines textwrap::fill has made of its
   text, which is at least one; an item is one line of one message. *)

MaxFrame == 3        \* messages in the buffer of a frame
MaxLines == 2        \* wrapped lines of one message

NoFrame == [done |-> FALSE]

(* Viewport heights f.size().height *)
FrameHeights == {1, 2, 3, 4, 7}

(* The item of line `l` of message m: the first line carries the badges, the
   name and the separator, 154-178, a later line the padding, 180-184. *)
Item(m, l) ==
    [id |-> m.id, line |-> l, prefix |-> IF l = 1 THEN "name" ELSE "padding"]

(* As message_items, with the lines pushed at the back. *)
message_items_push_back(m) == [k \in 1..m.lines |-> Item(m, k)]

(* tmpitems after the loop at 152-186: each line is pushed at the front, so
   the last line comes first. *)
message_items(m) == [k \in 1..m.lines |-> Item(m, m.lines - k + 1)]

(* items after `for m in &messages`, 110-199: the items of each message
   appended in the order of iteration, 187-189. *)
RECURSIVE frame_items(_)
frame_items(order) ==
    IF order = <<>> THEN <<>>
    ELSE message_items(Head(order)) \o frame_items(Tail(order))

(* List::new(items).start_corner(Corner::BottomLeft) rendered into an area
   of `height` rows, 201-204: items[0] is on the bottom row, each next item
   on the row above, and items that do not fit are not shown.  The result
   is the items on screen, from the top row shown to the bottom row. *)
rows_shown(items, height) ==
    LET n == Min(Len(items), height)
    IN  [k \in 1..n |-> items[n - k + 1]]

(* Buffers as the render loop keeps them: the front is the newest message,
   so serial numbers fall from the front to the back. *)
FrameBuffers ==
    { [i \in 1..Len(ls) |-> [id |-> Len(ls) - i + 1, lines |-> ls[i]]] :
        ls \in SeqsUpTo(1..MaxLines, MaxFrame) }

FrameInputs == [done : {TRUE}, messages : FrameBuffers, height : FrameHeights]

(* The closure given to terminal.draw, 105-205, for the buffer and the
   viewport of fr_in. *)
DrawFrame ==
    /\ fr_in.done /\ ~fr_out.done
    /\ fr_out' = [done |-> TRUE,
                  items |-> frame_items(DrawnOrder(fr_in.messages)),
                  rows |-> rows_shown(frame_items(DrawnOrder(fr_in.messages)),
                                      fr_in.height)]
    /\ UNCHANGED <<queue, tx_alive, tx2_alive, p_elapsed, messages, elapsed,
                   state, exit_code, exit_cause, raw_mode, cursor_shown, next_id,
                   inserted, since_draw, last, p_last, lay_in, lay_out,
                   send_failed, fr_in>>

----------------------------------------------------------------------------
(* The producers after the render loop has panicked, main.rs 36-61.  The
   panic unwinds main and drops rx, so every later send returns Err; the
   spawned tasks run on until the runtime stops them.  process::exit(0) on
   the quit path ends every task at once. *)
RxDropped == state = "Terminated" /\ exit_cause \in {"draw", "recv"}

(* tx2.send(Event::ChatMessage(message)).expect(..), 38-39, with rx gone:
   expect panics and the network task ends. *)
NetSendFails ==
    /\ RxDropped
    /\ tx2_alive
    /\ send_failed' = "ChatMessage"
    /\ tx2_alive' = FALSE
    /\ UNCHANGED <<queue, tx_alive, p_elapsed, messages, elapsed, state,
                   exit_code, exit_cause, raw_mode, cursor_shown, next_id,
                   inserted, since_draw, last, p_last, lay_in, lay_out,
                   fr_in, fr_out>>

(* tx.send(Event::Input(..)).expect("can send events"), 52-53, with rx gone:
   expect panics and the input/tick task ends before its tick check. *)
KeySendFails(key) ==
    /\ RxDropped
    /\ tx_alive
    /\ key \in Keys
    /\ send_failed' = "Input"
    /\ tx_alive' = FALSE
    /\ UNCHANGED <<queue, tx2_alive, p_elapsed, messages, elapsed, state,
                   exit_code, exit_cause, raw_mode, cursor_shown, next_id,
                   inserted, since_draw, last, p_last, lay_in, lay_out,
                   fr_in, fr_out>>

(* if let Ok(_) = tx.send(Event::Render) { last_tick = Instant::now(); },
   58-60, with rx gone: the Err is dropped, last_tick keeps its value and the
   loop goes on to its next iteration. *)
TickSendFails ==
    /\ RxDropped
    /\ tx_alive
    /\ TickDue(p_elapsed)
    /\ send_failed' = "Render"
    /\ UNCHANGED <<queue, tx_alive, tx2_alive, p_elapsed, messages, elapsed,
                   state, exit_code, exit_cause, raw_mode, cursor_shown,
                   next_id, inserted, since_draw, last, p_last, lay_in,
                   lay_out, fr_in, fr_out>>

(* Time passes for the input/tick task after the render loop has gone. *)
AdvanceAfterPanic ==
    /\ RxDropped
    /\ tx_alive
    /\ p_elapsed < MaxElapsed
    /\ p_elapsed' = Min(p_elapsed + TimeStep, MaxElapsed)
    /\ UNCHANGED <<queue, tx_alive, tx2_alive, messages, elapsed, state,
                   exit_code, exit_cause, raw_mode, cursor_shown, next_id,
                   inserted, since_draw, last, p_last, lay_in, lay_out,
                   send_failed, fr_in, fr_out>>

(* The state when the render loop is entered at line 76: raw mode is on, the
   buffer is empty, last_tick was just taken.  The input/tick task was
   spawned before the terminal was set up, so its last_tick may be older. *)
Init ==
    /\ queue = <<>>
    /\ tx_alive = TRUE /\ tx2_alive = TRUE
    /\ p_elapsed \in {0, TimeStep}
    /\ messages = <<>>
    /\ elapsed = 0
    /\ state = "Running" /\ exit_code = -1 /\ exit_cause = "none"
    /\ raw_mode = TRUE /\ cursor_shown = FALSE
    /\ next_id = 1 /\ inserted = 0
    /\ since_draw = -1
    /\ last = NoDispatch
    /\ p_last = NoIteration
    /\ lay_in = NoLayout /\ lay_out = NoLayout
    /\ send_failed = "none"
    /\ fr_in = NoFrame /\ fr_out = NoFrame

(* What one iteration of the input/tick task did, read off its step: the
   terminal event it read (NoEvent after a timeout), the events it sent, its
   last_tick.elapsed() when it ran and whether that went back to zero. *)
Iteration(read) ==
    p_last' = [read |-> read,
               sent |-> SubSeq(queue', Len(queue) + 1, Len(queue')),
               elapsed |-> p_elapsed,
               reset |-> p_elapsed' < p_elapsed]

Next ==
    \/ NetRecv(MaxQueue, MaxMsgs)
    \/ NetEnd
    \/ \E key \in Keys : ForwardKey(MaxQueue, key) /\ UNCHANGED p_last
    \/ SkipEvent(MaxQueue) /\ UNCHANGED p_last
    \/ PollTimeout(MaxQueue) /\ UNCHANGED p_last
    \/ PollFails
    \/ Advance
    \/ ConsumeInput
    \/ ConsumeChatMessage
    \/ ConsumeRender
    \/ RecvClosed

Spec == Init /\ [][Next]_vars

(* The network sending more chat messages than the buffer holds, with ticks
   and the one key press that reaches the redraw guard. *)
NextBuffer ==
    \/ NetRecv(MaxBurstQueue, MaxBurst)
    \/ ForwardKey(MaxBurstQueue, Input("c", {})) /\ UNCHANGED p_last
    \/ PollTimeout(MaxBurstQueue) /\ UNCHANGED p_last
    \/ Advance
    \/ ConsumeInput
    \/ ConsumeChatMessage
    \/ ConsumeRender

SpecBuffer == Init /\ [][NextBuffer]_vars

(* The input/tick task observed iteration by iteration, with the render loop
   draining the channel and no chat messages. *)
NextInput ==
    \/ \E key \in Keys : ForwardKey(MaxQueue, key) /\ Iteration(key)
    \/ SkipEvent(MaxQueue) /\ Iteration(OtherEvent)
    \/ PollTimeout(MaxQueue) /\ Iteration(NoEvent)
    \/ PollFails
    \/ Advance
    \/ ConsumeInput
    \/ ConsumeRender

SpecInput == Init /\ [][NextInput]_vars

(* The full program followed past a panic of the render loop. *)
NextShutdown ==
    \/ Next
    \/ NetSendFails
    \/ \E key \in Keys : KeySendFails(key)
    \/ TickSendFails
    \/ AdvanceAfterPanic

SpecShutdown == Init /\ [][NextShutdown]_vars

(* One frame drawn for a buffer and a viewport drawn from FrameInputs. *)
InitFrame ==
    /\ queue = <<>>
    /\ tx_alive = TRUE /\ tx2_alive = TRUE
    /\ p_elapsed = 0
    /\ messages = <<>>
    /\ elapsed = 0
    /\ state = "Running" /\ exit_code = -1 /\ exit_cause = "none"
    /\ raw_mode = TRUE /\ cursor_shown = FALSE
    /\ next_id = 1 /\ inserted = 0
    /\ since_draw = -1
    /\ last = NoDispatch
    /\ p_last = NoIteration
    /\ lay_in = NoLayout /\ lay_out = NoLayout
    /\ send_failed = "none"
    /\ fr_in \in FrameInputs /\ fr_out = NoFrame

NextFrame == DrawFrame

SpecFrame == InitFrame /\ [][NextFrame]_vars

(* The program under the scheduling its tasks get: time passes, the render
   loop takes the event at the head of the channel, and the input/tick task
   gets to run its loop again and again.  The channel of the program is
   unbounded, so an iteration of the input/tick task is never held back by
   it; in the model the iteration waits for room, which the render loop
   makes again and again, hence the strong fairness.  The network is under
   no obligation, and neither poll nor read fails. *)
LiveKeys == { Input("c", {"CONTROL"}), Input("c", {}), Input("q", {"CONTROL"}) }

InputTaskIteration ==
    \/ \E key \in LiveKeys : ForwardKey(MaxLiveQueue, key) /\ UNCHANGED p_last
    \/ PollTimeout(MaxLiveQueue) /\ UNCHANGED p_last

RenderLoopIteration ==
    \/ ConsumeInput
    \/ ConsumeChatMessage
    \/ ConsumeRender

NextLive ==
    \/ NetRecv(MaxLiveQueue, MaxLiveMsgs)
    \/ InputTaskIteration
    \/ Advance
    \/ RenderLoopIteration

SpecLive ==
    /\ Init
    /\ [][NextLive]_vars
    /\ WF_vars(Advance)
    /\ SF_vars(InputTaskIteration)
    /\ WF_vars(RenderLoopIteration)

(* The input/tick task observed iteration by iteration under a stream of
   terminal events, with the scheduling of SpecLive and no chat messages. *)
ObservedIteration ==
    \/ \E key \in LiveKeys : ForwardKey(MaxLiveQueue, key) /\ Iteration(key)
    \/ SkipEvent(MaxLiveQueue) /\ Iteration(OtherEvent)
    \/ PollTimeout(MaxLiveQueue) /\ Iteration(NoEvent)

NextInputLive ==
    \/ ObservedIteration
    \/ PollFails
    \/ Advance
    \/ ConsumeInput
    \/ ConsumeRender

SpecInputLive ==
    /\ Init
    /\ [][NextInputLive]_vars
    /\ WF_vars(Advance)
    /\ WF_vars(ObservedIteration)
    /\ WF_vars(ConsumeInput \/ ConsumeRender)

(* The layout applied to one message drawn from LayoutInputs. *)
InitLayout ==
    /\ queue = <<>>
    /\ tx_alive = TRUE /\ tx2_alive = TRUE
    /\ p_elapsed = 0
    /\ messages = <<>>
    /\ elapsed = 0
    /\ state = "Running" /\ exit_code = -1 /\ exit_cause = "none"
    /\ raw_mode = TRUE /\ cursor_shown = FALSE
    /\ next_id = 1 /\ inserted = 0
    /\ since_draw = -1
    /\ last = NoDispatch
    /\ p_last = NoIteration
    /\ lay_in \in LayoutInputs /\ lay_out = NoLayout
    /\ send_failed = "none"
    /\ fr_in = NoFrame /\ fr_out = NoFrame

NextLayout == Layout

SpecLayout == InitLayout /\ [][NextLayout]_vars

----------------------------------------------------------------------------
(* Properties *)

CtrlC == Input("c", {"CONTROL"})

(* The n most recently pushed messages that fit the buffer, newest first;
   message k is the k-th Privmsg pushed. *)
MostRecent(n) == [i \in 1..Min(n, messages_buffer_size) |-> n - i + 1]

(* C1: after N insertions the buffer holds exactly the min(N, C) most recently
   inserted messages, newest first; so its length never exceeds C and what
   was evicted is always the oldest. *)
C1_BufferHoldsMostRecent ==
    /\ Len(messages) <= messages_buffer_size
    /\ messages = MostRecent(inserted)

C1_Witness ==
    /\ inserted > messages_buffer_size + 1
    /\ Len(messages) = messages_buffer_size

(* C2, as claimed: every Tick the render loop consumes triggers a redraw (a
   draw that fails fatally set aside). *)
C2_EveryTickRedraws ==
    (last.ev.type = "Render" /\ last.draw # "failed") => last.draw = "done"

(* C2, amended: a consumed Tick leads to a draw call exactly when a tick
   period has passed since the render loop's last_tick, and a draw that
   succeeds lays out the whole buffer. *)
C2_TickRedrawsWhenDue ==
    last.ev.type = "Render" =>
        /\ last.draw = "none" <=> last.elapsed < tick_rate
        /\ last.draw = "done" => last.frame = messages

C2_Witness ==
    /\ last.ev.type = "Render" /\ last.draw = "done"
    /\ last.frame = <<2, 1>>

C4_OtherKeysIgnored ==
    (last.ev.type = "Input" /\ last.ev # CtrlC) => last.draw = "none"

(* C5: the dispatch of a chat-message event never draws, whatever time has
   passed since last_tick. *)
C5_ChatMessageNeverRedraws ==
    last.ev.type = "ChatMessage" => last.draw = "none"

C5_Witness ==
    /\ last.ev.type = "ChatMessage" /\ last.ev.privmsg
    /\ last.elapsed >= tick_rate

(* C6, as claimed: the loop leaves Running only through the quit key or a
   failed draw. *)
C6_OnlyQuitOrDrawFailure ==
    state = "Terminated" => exit_cause \in {"quit", "draw"}

(* C6, amended: the loop leaves Running only through the quit key, a failed
   draw, or a receive on the closed and empty channel; once Terminated
   nothing is processed. *)
C6_TerminationCauses ==
    /\ [](state = "Running" => exit_cause = "none" /\ exit_code = -1)
    /\ [](state = "Terminated" =>
            \/ exit_cause = "quit" /\ last.ev = CtrlC /\ exit_code = 0
            \/ exit_cause = "draw" /\ last.draw = "failed" /\ exit_code # 0
            \/ /\ exit_cause = "recv" /\ exit_code # 0
               /\ queue = <<>> /\ ~tx_alive /\ ~tx2_alive)
    /\ [][state = "Terminated" => UNCHANGED <<queue, messages, last, state, exit_cause>>]_vars

C6_Witness ==
    state = "Terminated" /\ exit_cause = "recv" /\ inserted > 0

(* C7: a full tick period passes between a redraw and the one before it,
   however many events wait in the channel. *)
C7_RedrawsATickApart ==
    last.draw = "done" => last.gap = -1 \/ last.gap >= tick_rate

C7_Witness ==
    /\ last.draw = "done" /\ last.gap >= tick_rate
    /\ Len(queue) >= 1

(* C8: a redraw lays out exactly the buffer, which is the most recent
   messages consumed before it, newest first, and the dispatch that draws
   does not change the buffer. *)
C8_RedrawShowsBuffer ==
    /\ [](last.draw = "done" =>
            last.frame = MostRecent(inserted) /\ last.frame = messages)
    /\ [][(queue # <<>> /\ queue' = Tail(queue) /\ last'.draw = "done")
            => messages' = messages]_vars

C8_Witness ==
    /\ last.draw = "done"
    /\ inserted > messages_buffer_size
    /\ Len(last.frame) = messages_buffer_size

(* C9: the input/tick task resets last_tick only in an iteration that emits
   a Tick, it emits a Tick only when a tick period has passed since
   last_tick, and a key event it reads is sent in that same iteration. *)
C9_KeyLeavesTickTimer ==
    LET tick == p_last.sent # <<>> /\ p_last.sent[Len(p_last.sent)] = Render
    IN  /\ p_last.reset <=> tick
        /\ tick => p_last.elapsed >= tick_rate
        /\ p_last.read.type = "Input" =>
              p_last.sent # <<>> /\ p_last.sent[1] = p_last.read

C9_Witness ==
    /\ p_last.read.type = "Input" /\ p_last.sent = <<p_last.read>>
    /\ p_last.elapsed > 0 /\ p_elapsed >= p_last.elapsed

(* The configured column widths of the badges a message carries. *)
ConfiguredBadgeWidth(badges) ==
    (IF HasBadge(badges, "subscriber") THEN ConfigDefault.subscriber_symbol_width ELSE 0)
    + (IF HasBadge(badges, "founder") THEN ConfigDefault.founder_symbol_width ELSE 0)
    + (IF HasBadge(badges, "moderator") THEN ConfigDefault.mod_symbol_width ELSE 0)
    + (IF HasBadge(badges, "vip") THEN ConfigDefault.vip_symbol_width ELSE 0)

(* C10, as claimed: the prefix width is the length of the sender name, plus
   2, plus the configured width of each badge present, and the body is
   wrapped to the frame width less the prefix width. *)
C10_PrefixWidthFromConfig ==
    lay_out.done =>
        LET prefix == Len(lay_in.name) + 2 + ConfiguredBadgeWidth(lay_in.badges)
        IN  /\ lay_out.width_for_name = prefix
            /\ lay_in.width >= prefix =>
                  /\ lay_out.width_for_text.status = "ok"
                  /\ lay_out.width_for_text.value = lay_in.width - prefix

(* C11, as claimed: when the frame is no wider than the prefix, the layout
   does not fail or underflow: the body width is clamped to at least 1. *)
C11_BodyWidthClamped ==
    (lay_out.done /\ lay_in.width <= lay_out.width_for_name) =>
        /\ lay_out.width_for_text.status = "ok"
        /\ lay_out.width_for_text.value >= 1

(* C12, as claimed: the sender name gets a contrasting background exactly
   when 0.2126*R + 0.7152*G + 0.0722*B is strictly below the configured
   threshold (so not at the threshold itself), and a message without a
   colour gets the default style.  Weights in units of 1/10000. *)
C12_InvertBelowThreshold ==
    lay_out.done =>
        LET c == lay_in.name_color
            luminance == 2126 * c.r + 7152 * c.g + 722 * c.b
        IN  IF c.some
            THEN /\ lay_out.style.fg = <<c.r, c.g, c.b>>
                 /\ lay_out.style.bg = "Gray" <=>
                       luminance < 10000 * ConfigDefault.invert_below_brightness
            ELSE lay_out.style = [fg |-> "unset", bg |-> "unset"]

(* C13, as claimed: a producer whose send fails does not go on running its
   loop, whichever of the three kinds of event it was sending. *)
C13_FailedSendIsFatal ==
    /\ send_failed = "ChatMessage" => ~tx2_alive
    /\ send_failed \in {"Input", "Render"} => ~tx_alive

(* C14: the dispatch of a protocol message that is no Privmsg leaves the
   message buffer as it was, draws nothing and leaves the loop running. *)
C14_OtherMessagesDiscarded ==
    [][ (/\ queue # <<>>
         /\ Head(queue).type = "ChatMessage"
         /\ ~Head(queue).privmsg
         /\ queue' = Tail(queue))
        => /\ messages' = messages
           /\ inserted' = inserted
           /\ last'.ev = Head(queue)
           /\ last'.draw = "none"
           /\ state' = "Running" ]_vars

C14_Witness ==
    /\ last.ev.type = "ChatMessage" /\ ~last.ev.privmsg
    /\ messages # <<>>
    /\ TickDue(last.elapsed)
    /\ state = "Running"

(* The orderings of a badge list. *)
Orderings(badges) ==
    { [i \in 1..Len(badges) |-> badges[f[i]]] : f \in Permutations(1..Len(badges)) }

(* C15: every ordering of a message's badge list yields the prefix width and
   the first-line spans the layout has produced for the message. *)
C15_BadgeOrderIrrelevant ==
    lay_out.done =>
        \A badges \in Orderings(lay_in.badges) :
            LET m == [lay_in EXCEPT !.badges = badges]
            IN  /\ width_for_name(m) = lay_out.width_for_name
                /\ first_line_spans(m) = lay_out.first_line

C15_Witness ==
    /\ lay_out.done
    /\ lay_in.badges = <<"vip", "moderator">>
    /\ lay_out.first_line[1] = "finger" /\ lay_out.first_line[2] = "ticket crab"
    /\ lay_out.width_for_name = Len(lay_in.name) + 2 + ModColumns + VipColumns

(* C16: the rows of a frame, read from the top, go from older to newer
   messages and through the lines of each message first to last, only a
   first line carries the name, and the bottom row is the last line of the
   newest message. *)
C16_RowsOldestToNewest ==
    fr_out.done =>
        LET rows == fr_out.rows
            buf == fr_in.messages
            LinesOf(id) == buf[Len(buf) - id + 1].lines
        IN  /\ \A k \in 1..(Len(rows) - 1) :
                  \/ /\ rows[k + 1].id = rows[k].id
                     /\ rows[k + 1].line = rows[k].line + 1
                  \/ /\ rows[k + 1].id = rows[k].id + 1
                     /\ rows[k + 1].line = 1
                     /\ rows[k].line = LinesOf(rows[k].id)
            /\ \A k \in 1..Len(rows) : rows[k].prefix = "name" <=> rows[k].line = 1
            /\ buf # <<>> =>
                  /\ rows # <<>>
                  /\ rows[Len(rows)].id = buf[1].id
                  /\ rows[Len(rows)].line = buf[1].lines
            /\ buf = <<>> => rows = <<>>

C16_Witness ==
    /\ fr_out.done
    /\ Len(fr_in.messages) = 2
    /\ fr_in.messages[1].lines = 2 /\ fr_in.messages[2].lines = 2
    /\ fr_in.height = 4
    /\ fr_out.rows = << Item(fr_in.messages[2], 1), Item(fr_in.messages[2], 2),
                        Item(fr_in.messages[1], 1), Item(fr_in.messages[1], 2) >>

(* C17, as claimed: whenever the render loop has terminated, by the quit key,
   a failed draw or a failed receive, raw mode has been disabled. *)
C17_RawModeReleased ==
    state = "Terminated" => ~raw_mode

(* C18: while the render loop runs, the dispatch that pushes a chat message
   into the buffer is eventually followed by a dispatch that redraws. *)
C18_InsertedIsRedrawn ==
    (last.ev.type = "ChatMessage" /\ last.ev.privmsg /\ messages # <<>>)
        ~> (last.draw = "done" \/ state = "Terminated")

C18_Witness ==
    /\ last.draw = "done"
    /\ messages # <<>>
    /\ last.ev = Render
    /\ state = "Running"

(* C19: an iteration of the input/tick task forwards at most one key press,
   and one that finds the tick period elapsed emits a Tick after it, whether
   or not it forwarded a key press; and while the task and the render loop
   run, the tick period elapses and a Tick is emitted again and again. *)
C19_KeysCannotStarveTicks ==
    /\ [](/\ Len(SelectSeq(p_last.sent, LAMBDA e : e.type = "Input")) <= 1
          /\ TickDue(p_last.elapsed) =>
                /\ p_last.sent # <<>>
                /\ p_last.sent[Len(p_last.sent)] = Render
                /\ p_last.reset
          /\ (TickDue(p_last.elapsed) /\ p_last.read.type = "Input") =>
                p_last.sent = <<p_last.read, Render>>)
    /\ \/ <>(state = "Terminated" \/ ~tx_alive)
       \/ /\ []<>TickDue(p_elapsed)
          /\ []<>(~TickDue(p_elapsed) /\ p_last.reset)

C19_Witness ==
    /\ TickDue(p_last.elapsed)
    /\ p_last.read = Input("q", {"CONTROL"})
    /\ p_last.sent = <<Input("q", {"CONTROL"}), Render>>
    /\ state = "Running" /\ tx_alive

(* C20, as claimed: the dispatch of a key press ends the loop exactly when
   the key is lower-case 'c' with Control as its only modifier.  The loop
   ends in a dispatch by the quit path or by a failed draw, and `last` is
   then that dispatch. *)
C20_TerminatesOnlyOnCtrlC ==
    last.ev.type = "Input" =>
        ((state = "Terminated" /\ exit_cause \in {"quit", "draw"}) <=> last.ev = CtrlC)

====
